---- MODULE Spec2Model ----
(***************************************************************************)
(* Model of the MCP repository analyzer: file indexing, transport          *)
(* detection, tool extraction (Python AST pass, JS/TS export pass, tools-  *)
(* path fallback pass), schema inference and confidence scaling.           *)
(*                                                                         *)
(* Text is modelled at the level the code inspects it:                     *)
(*   - paths and annotations are sequences of one-character strings, so    *)
(*     that lower(), substring search, startswith, suffix and stem are     *)
(*     computed as the code computes them;                                 *)
(*   - file content is a record of what the code reads from the text: the  *)
(*     characters the keyword searches scan, the outcome of ast.parse      *)
(*     (failure, or the top-level nodes of the tree), the matches of the   *)
(*     export regular expression, and the embedding backend's answer for   *)
(*     the text;                                                           *)
(*   - similarities are exact rationals <<num, den>>, confidences are      *)
(*     integers in hundredths (0.35 is 35).                                *)
(***************************************************************************)
EXTENDS Integers, Sequences, FiniteSets, TLC

VARIABLES
    tree,       \* the repository tree on disk: a sequence of [path, content]
    emb,        \* _EMB.available(): fixed for the process lifetime
    pc,         \* position of analyze() in the pipeline
    files,      \* the run's file index (index_repo's result)
    transport,  \* the latest TransportVerdict
    tools,      \* the tools list extract_tools is building / has returned
    reports,    \* outcomes of the runs completed so far, in order
    fnode,      \* schema-inference harness: the FunctionDef under inference
    fschema,    \* schema-inference harness: the result
    sim,        \* confidence-scaling harness: <<sim, floor, ceiling>>
    conf,       \* confidence-scaling harness: the result
    disk,       \* server: working_repos/, destination name -> tree on disk
    reqs,       \* server: the /mcp/clone-analyze requests in flight
    run_template \* run-template harness: infer_run_template's result

vars == <<tree, emb, pc, files, transport, tools, reports, fnode, fschema, sim, conf,
          disk, reqs, run_template>>

None == "None"

(***************************************************************************)
(* Bounds of the model.                                                    *)
(***************************************************************************)
MaxFiles == 3      \* files in the repository tree
MaxRuns == 2       \* analyses run on the same tree
MaxArgs == 2       \* parameters of a generated FunctionDef
MaxRoot == 3       \* similarities in [0,1] are (a/b)^5 with b <= MaxRoot

(***************************************************************************)
(* Sequence helpers.                                                       *)
(***************************************************************************)
Range(s) == {s[i] : i \in DOMAIN s}

RECURSIVE Flatten(_)
Flatten(ss) == IF ss = <<>> THEN <<>> ELSE Head(ss) \o Flatten(Tail(ss))

Min2(a, b) == IF a <= b THEN a ELSE b
Max2(a, b) == IF a >= b THEN a ELSE b

(***************************************************************************)
(* Strings as character sequences: str.lower, `in`, startswith.            *)
(***************************************************************************)
UpperToLower ==
    "A" :> "a" @@ "B" :> "b" @@ "C" :> "c" @@ "D" :> "d" @@ "E" :> "e" @@
    "F" :> "f" @@ "G" :> "g" @@ "H" :> "h" @@ "I" :> "i" @@ "J" :> "j" @@
    "K" :> "k" @@ "L" :> "l" @@ "M" :> "m" @@ "N" :> "n" @@ "O" :> "o" @@
    "P" :> "p" @@ "Q" :> "q" @@ "R" :> "r" @@ "S" :> "s" @@ "T" :> "t" @@
    "U" :> "u" @@ "V" :> "v" @@ "W" :> "w" @@ "X" :> "x" @@ "Y" :> "y" @@
    "Z" :> "z"

LowerChar(c) == IF c \in DOMAIN UpperToLower THEN UpperToLower[c] ELSE c

\* str.lower()
RECURSIVE Lower(_)
Lower(s) == IF s = <<>> THEN <<>> ELSE <<LowerChar(Head(s))>> \o Lower(Tail(s))

StartsWith(s, prefix) ==
    /\ Len(prefix) <= Len(s)
    /\ \A k \in DOMAIN prefix : s[k] = prefix[k]

\* needle in hay
Contains(hay, needle) ==
    \E i \in 0..(Len(hay) - Len(needle)) :
        \A k \in DOMAIN needle : hay[i + k] = needle[k]

(***************************************************************************)
(* pathlib: Path.name, Path.suffix, Path.stem on a relative path.          *)
(***************************************************************************)
LastIndexOf(s, c) ==
    IF \E i \in DOMAIN s : s[i] = c
    THEN CHOOSE i \in DOMAIN s : s[i] = c /\ \A j \in DOMAIN s : s[j] = c => j <= i
    ELSE 0

PathName(p) == SubSeq(p, LastIndexOf(p, "/") + 1, Len(p))

\* the suffix starts at the last dot of the name, unless that dot is the
\* name's first or last character
PathSuffix(p) ==
    LET name == PathName(p)
        i == LastIndexOf(name, ".")
    IN  IF 1 < i /\ i < Len(name) THEN SubSeq(name, i, Len(name)) ELSE <<>>

PathStem(p) ==
    LET name == PathName(p)
        i == LastIndexOf(name, ".")
    IN  IF 1 < i /\ i < Len(name) THEN SubSeq(name, 1, i - 1) ELSE name

(***************************************************************************)
(* file_indexer.py                                                         *)
(***************************************************************************)
EXT_LANG_MAP == <<
    << <<".","p","y">>, "python" >>,
    << <<".","j","s">>, "javascript" >>,
    << <<".","t","s">>, "typescript" >>,
    << <<".","j","a","v","a">>, "java" >>,
    << <<".","g","o">>, "go" >>,
    << <<".","r","s">>, "rust" >>,
    << <<".","c","p","p">>, "cpp" >>,
    << <<".","c">>, "c" >>,
    << <<".","c","s">>, "csharp" >>,
    << <<".","p","h","p">>, "php" >>,
    << <<".","r","b">>, "ruby" >>,
    << <<".","s","h">>, "shell" >>,
    << <<".","y","a","m","l">>, "yaml" >>,
    << <<".","y","m","l">>, "yaml" >>,
    << <<".","j","s","o","n">>, "json" >>,
    << <<".","h","t","m","l">>, "html" >>,
    << <<".","m","d">>, "markdown" >> >>

\* EXT_LANG_MAP.get(ext)
LanguageOf(ext) ==
    IF \E i \in DOMAIN EXT_LANG_MAP : EXT_LANG_MAP[i][1] = ext
    THEN EXT_LANG_MAP[CHOOSE i \in DOMAIN EXT_LANG_MAP : EXT_LANG_MAP[i][1] = ext][2]
    ELSE None

\* one file record of index_repo, from one entry of the tree
FileRecord(entry) ==
    [ path |-> entry.path,
      extension |-> Lower(PathSuffix(entry.path)),
      language |-> LanguageOf(Lower(PathSuffix(entry.path))),
      content |-> entry.content ]

\* index_repo: one record per file of the tree, in walk order
index_repo(t) == [i \in DOMAIN t |-> FileRecord(t[i])]

(***************************************************************************)
(* ml_utils.py: exact rational arithmetic for scale_confidence.            *)
(* A rational is <<num, den>> with den > 0.                                *)
(***************************************************************************)
RECURSIVE Pow(_, _)
Pow(a, k) == IF k = 0 THEN 1 ELSE a * Pow(a, k - 1)

IsZero(r) == r[1] = 0

\* max(0.0, min(1.0, sim))
Clamp01(r) ==
    IF r[1] < 0 THEN <<0, 1>>
    ELSE IF r[1] > r[2] THEN <<1, 1>>
    ELSE r

\* the a with a^5 = n (similarities in [0,1] are fifth powers of rationals,
\* so that s ** 1.8 = (a/b) ** 9 is computed exactly)
FifthRoot(n) == CHOOSE a \in 0..MaxRoot : Pow(a, 5) = n

\* s ** 1.8
Pow18(r) == << Pow(FifthRoot(r[1]), 9), Pow(FifthRoot(r[2]), 9) >>

\* round(x) of the rational n/d >= 0 to an integer, ties to even
RoundHalfEven(n, d) ==
    LET q == n \div d
        rem == n % d
    IN  IF 2 * rem < d THEN q
        ELSE IF 2 * rem > d THEN q + 1
        ELSE IF q % 2 = 0 THEN q ELSE q + 1

DefaultFloor == 15
DefaultCeiling == 98

\* mutant: the curve runs from the ceiling down to the floor
scale_confidence_Inverted(r, floor, ceiling) ==
    LET s == Clamp01(r)
        p == Pow18(s)
        cn == ceiling * p[2] - (ceiling - floor) * p[1]
        clamped == Max2(0, Min2(100 * p[2], cn))
    IN  RoundHalfEven(clamped, p[2])

\* scale_confidence(sim, floor, ceiling), floor, ceiling and the result in
\* hundredths: round(max(0.0, min(1.0, floor + (ceiling - floor) * s ** 1.8)), 2)
scale_confidence(r, floor, ceiling) ==
    LET s == Clamp01(r)
        p == Pow18(s)
        cn == floor * p[2] + (ceiling - floor) * p[1]    \* c = cn / p[2] hundredths
        clamped == Max2(0, Min2(100 * p[2], cn))
    IN  RoundHalfEven(clamped, p[2])

(***************************************************************************)
(* ml_utils.py: EmbeddingModel.  The backend is a deterministic function   *)
(* of the text it is given; the model records its answer in the content    *)
(* the text is cut from: it raises, or returns a template and a cosine     *)
(* similarity.                                                             *)
(***************************************************************************)
\* EmbeddingModel.available()
available == emb

BestTemplateRaises(content) == content.match.raises

\* EmbeddingModel.best_template(text) when it returns
best_template(content) ==
    IF ~available THEN [label |-> None, score |-> <<0, 1>>]
    ELSE [label |-> content.match.label, score |-> content.match.score]

\* the heuristic confidence used when there is no similarity signal
HeuristicConfidence == 35

\* mutant: the similarity is scaled even when there is none
ConfidenceOf_AlwaysScaled(score) ==
    scale_confidence(score, DefaultFloor, DefaultCeiling)

\* `scale_confidence(sim) if sim else 0.35`
ConfidenceOf(score) ==
    IF ~IsZero(score) THEN scale_confidence(score, DefaultFloor, DefaultCeiling)
    ELSE HeuristicConfidence

(***************************************************************************)
(* Ordered dictionaries (Python dicts keep insertion order): a sequence of *)
(* [key, val] with distinct keys.                                          *)
(***************************************************************************)
DictKeys(d) == [i \in DOMAIN d |-> d[i].key]

DictHas(d, k) == \E i \in DOMAIN d : d[i].key = k

DictGet(d, k) == d[CHOOSE i \in DOMAIN d : d[i].key = k].val

\* d[k] = v
DictSet(d, k, v) ==
    IF DictHas(d, k)
    THEN [i \in DOMAIN d |-> IF d[i].key = k THEN [key |-> k, val |-> v] ELSE d[i]]
    ELSE Append(d, [key |-> k, val |-> v])

(***************************************************************************)
(* tool_extractor.py: annotation table                                     *)
(***************************************************************************)
_TYPE_MAP == <<
    << <<"s","t","r">>, "string" >>,
    << <<"i","n","t">>, "integer" >>,
    << <<"f","l","o","a","t">>, "number" >>,
    << <<"b","o","o","l">>, "boolean" >>,
    << <<"l","i","s","t">>, "array" >>,
    << <<"d","i","c","t">>, "object" >> >>

\* _map_annotation_to_simple: the first table key contained in the lowered
\* annotation text; "string" when there is no annotation or no key matches
_map_annotation_to_simple(ann) ==
    IF ann = <<>> THEN "string"
    ELSE LET s == Lower(ann)
             hits == {i \in DOMAIN _TYPE_MAP : Contains(s, _TYPE_MAP[i][1])}
         IN  IF hits = {} THEN "string"
             ELSE _TYPE_MAP[CHOOSE i \in hits : \A j \in hits : i <= j][2]

\* _TYPE_MAP.get(t, "string") for t = type(v.value).__name__
TypeOfLiteral(t) ==
    IF \E i \in DOMAIN _TYPE_MAP : _TYPE_MAP[i][1] = t
    THEN _TYPE_MAP[CHOOSE i \in DOMAIN _TYPE_MAP : _TYPE_MAP[i][1] = t][2]
    ELSE "string"

(***************************************************************************)
(* tool_extractor.py: schema inference from a FunctionDef node             *)
(*   node.args   : sequence of [arg, annotation]   (node.args.args); an    *)
(*                 absent annotation is the empty text <<>>                *)
(*   node.ndefaults : len(node.args.defaults); it exceeds Len(node.args)   *)
(*                 when positional-only parameters carry defaults too      *)
(*   node.returns: the return annotation text, <<>> when absent            *)
(*   node.rets   : the Return statements in ast.walk order, each           *)
(*                 [isDict, items: sequence of [constKey, key, vtype]],    *)
(*                 vtype the type name of a literal value, <<>> otherwise  *)
(***************************************************************************)
\* Python's list indexing args[i] with a 0-based index that may be negative
PyIndexInRange(n, i) == -n <= i /\ i < n
PyIndex(s, i) == IF i < 0 THEN s[Len(s) + i + 1] ELSE s[i + 1]

\* range(num_args - num_defaults, num_args)
DefaultIndices(node) == (Len(node.args) - node.ndefaults)..(Len(node.args) - 1)

\* args[i] raises IndexError while default_arg_names is built
InputSchemaRaises(node) ==
    /\ node.ndefaults > 0
    /\ \E i \in DefaultIndices(node) : ~PyIndexInRange(Len(node.args), i)

\* mutant: the defaults are bound to the first N parameters
default_arg_names_Leading(node) ==
    {node.args[i].arg : i \in 1..Min2(node.ndefaults, Len(node.args))}

\* default_arg_names
default_arg_names(node) ==
    IF node.ndefaults > 0
    THEN {PyIndex(node.args, i).arg : i \in DefaultIndices(node)}
    ELSE {}

RECURSIVE InputProps(_, _, _)
InputProps(args, defaults, props) ==
    IF args = <<>> THEN props
    ELSE LET a == Head(args)
         IN  IF a.arg = "self" THEN InputProps(Tail(args), defaults, props)
             ELSE InputProps(Tail(args), defaults,
                    DictSet(props, a.arg,
                        [type |-> _map_annotation_to_simple(a.annotation),
                         required |-> ~(a.arg \in defaults)]))

RequiredOf(props) ==
    DictKeys(SelectSeq(props, LAMBDA e : e.val.required))

\* mutant: `required` is built from the parameter list, `self` included
_infer_input_schema_from_ast_RequiredFromArgs(node) ==
    LET props == InputProps(node.args, default_arg_names(node), <<>>)
        req == SelectSeq(node.args, LAMBDA a : ~(a.arg \in default_arg_names(node)))
    IN  [type |-> "object", properties |-> props,
         required |-> [i \in DOMAIN req |-> req[i].arg]]

\* _infer_input_schema_from_ast, when it does not raise
_infer_input_schema_from_ast(node) ==
    LET props == InputProps(node.args, default_arg_names(node), <<>>)
    IN  [type |-> "object", properties |-> props, required |-> RequiredOf(props)]

RECURSIVE DictLiteralProps(_, _)
DictLiteralProps(items, props) ==
    IF items = <<>> THEN props
    ELSE LET it == Head(items)
         IN  IF it.constKey
             THEN DictLiteralProps(Tail(items),
                    DictSet(props, it.key,
                        [type |-> IF it.vtype # <<>> THEN TypeOfLiteral(it.vtype)
                                  ELSE "string"]))
             ELSE DictLiteralProps(Tail(items), props)

\* _infer_output_schema_from_ast
_infer_output_schema_from_ast(node) ==
    IF node.returns # <<>>
    THEN [type |-> _map_annotation_to_simple(node.returns)]
    ELSE LET dicts == {i \in DOMAIN node.rets : node.rets[i].isDict}
         IN  IF dicts = {} THEN [type |-> "object"]
             ELSE LET first == CHOOSE i \in dicts : \A j \in dicts : i <= j
                      props == DictLiteralProps(node.rets[first].items, <<>>)
                  IN  [type |-> "object", properties |-> props,
                       required |-> DictKeys(props)]

(***************************************************************************)
(* tool_extractor.py: the three passes of extract_tools                    *)
(***************************************************************************)
\* the outcome of the guarded best_template call of a pass:
\* [template_match, sim]; (None, 0.0) when the backend is unavailable or raises
\* mutant: the similarity is not 0.0 when the backend is unavailable or raises
GuardedMatch_NoReset(content) ==
    IF available /\ ~BestTemplateRaises(content)
    THEN [template_match |-> best_template(content).label,
          sim |-> best_template(content).score]
    ELSE [template_match |-> None, sim |-> <<1, 32>>]

GuardedMatch(content) ==
    IF available /\ ~BestTemplateRaises(content)
    THEN [template_match |-> best_template(content).label,
          sim |-> best_template(content).score]
    ELSE [template_match |-> None, sim |-> <<0, 1>>]

Evidence(kind, name, path, label, score) ==
    [kind |-> kind, name |-> name, path |-> path, label |-> label, sim |-> score]

\* the candidate extract_python_tools appends for one FunctionDef
PythonCandidate(f, node) ==
    LET m == GuardedMatch(f.content)
    IN  [ name |-> node.name,
          description |->
              IF m.template_match # None
              THEN [kind |-> "template", label |-> m.template_match, name |-> node.name]
              ELSE [kind |-> "heuristic", label |-> None, name |-> node.name],
          predicted_filename |-> f.path,
          predicted_code_snippet |-> [kind |-> "segment", at |-> node.lineno],
          input_schema |-> _infer_input_schema_from_ast(node),
          output_schema |-> _infer_output_schema_from_ast(node),
          confidence |-> ConfidenceOf(m.sim),
          evidence |->
              <<Evidence("function", node.name, f.path, None, <<0, 1>>)>> \o
              (IF m.template_match # None
               THEN <<Evidence("matched template", None, <<>>, m.template_match, m.sim)>>
               ELSE <<>>) ]

\* the top-level nodes of a file that extract_python_tools turns into candidates
PythonFunctionDefs(f) ==
    IF f.language = "python" /\ f.content.parses
    THEN SelectSeq(f.content.body, LAMBDA node : node.kind = "FunctionDef")
    ELSE <<>>

\* extract_python_tools raises: schema inference raises on some function
PythonRaises(fs) ==
    \E i \in DOMAIN fs : \E node \in Range(PythonFunctionDefs(fs[i])) :
        InputSchemaRaises(node)

PythonToolsOfFile(f) ==
    LET defs == PythonFunctionDefs(f)
    IN  [k \in DOMAIN defs |-> PythonCandidate(f, defs[k])]

\* mutant: a file that fails to parse ends the loop over the files
extract_python_tools_StopsAtParseFailure(fs) ==
    LET bad == {i \in DOMAIN fs : fs[i].language = "python" /\ ~fs[i].content.parses}
        n == IF bad = {} THEN Len(fs)
             ELSE (CHOOSE i \in bad : \A j \in bad : i <= j) - 1
    IN  Flatten([i \in 1..n |-> PythonToolsOfFile(fs[i])])

\* extract_python_tools, when it does not raise
extract_python_tools(fs) ==
    Flatten([i \in DOMAIN fs |-> PythonToolsOfFile(fs[i])])

\* the candidate extract_js_tools appends for one match of export_re
JsCandidate(f, m) ==
    LET g == GuardedMatch(f.content)
    IN  [ name |-> m.name,
          description |->
              IF available /\ ~BestTemplateRaises(f.content)
              THEN [kind |-> "template", label |-> g.template_match, name |-> m.name]
              ELSE [kind |-> "exported", label |-> None, name |-> m.name],
          predicted_filename |-> f.path,
          predicted_code_snippet |->
              IF m.fnLine > 0 THEN [kind |-> "lines", at |-> m.fnLine]
              ELSE [kind |-> "<js snippet unavailable>", at |-> 0],
          input_schema |-> [type |-> "object", properties |-> <<>>],
          output_schema |-> [type |-> "object"],
          confidence |-> ConfidenceOf(g.sim),
          evidence |->
              <<Evidence("exported", m.name, f.path, None, <<0, 1>>)>> \o
              (IF ~IsZero(g.sim)
               THEN <<Evidence("matched template", None, <<>>, g.template_match, g.sim)>>
               ELSE <<>>) ]

JsToolsOfFile(f) ==
    IF f.language \in {"javascript", "typescript"}
    THEN [k \in DOMAIN f.content.exports |-> JsCandidate(f, f.content.exports[k])]
    ELSE <<>>

\* extract_js_tools
extract_js_tools(fs) ==
    Flatten([i \in DOMAIN fs |-> JsToolsOfFile(fs[i])])

\* mutant: only the two tests on "tools"
LooksLikeToolFile_ToolsOnly(p) ==
    \/ Contains(p, <<"/","t","o","o","l","s","/">>)
    \/ StartsWith(Lower(p), <<"t","o","o","l","s">>)

\* the path test of the fallback pass
LooksLikeToolFile(p) ==
    \/ Contains(p, <<"/","t","o","o","l","s","/">>)
    \/ StartsWith(Lower(p), <<"t","o","o","l","s">>)
    \/ Contains(Lower(p), <<"c","l","i">>)
    \/ Contains(Lower(p), <<"c","o","m","m","a","n","d","s">>)

\* any(t["predicted_filename"] == p for t in tools)
Covered(ts, p) == \E k \in DOMAIN ts : ts[k].predicted_filename = p

\* mutant: the evidence is recorded only when a template matched
FallbackCandidate_EvidenceOnlyOnMatch(f) ==
    LET g == GuardedMatch(f.content)
    IN  [ name |-> PathStem(f.path),
          description |-> [kind |-> "inferred", label |-> None, name |-> f.path],
          predicted_filename |-> f.path,
          predicted_code_snippet |-> [kind |-> "head", at |-> 1],
          input_schema |-> [type |-> "object"],
          output_schema |-> [type |-> "object"],
          confidence |-> ConfidenceOf(g.sim),
          evidence |-> IF g.template_match # None
                       THEN <<Evidence("file", None, f.path, None, <<0, 1>>)>>
                       ELSE <<>> ]

\* the candidate the fallback pass synthesizes for one file
FallbackCandidate(f) ==
    LET g == GuardedMatch(f.content)
    IN  [ name |-> PathStem(f.path),
          description |->
              IF g.template_match # None
              THEN [kind |-> "template", label |-> g.template_match, name |-> f.path]
              ELSE [kind |-> "inferred", label |-> None, name |-> f.path],
          predicted_filename |-> f.path,
          predicted_code_snippet |-> [kind |-> "head", at |-> 1],
          input_schema |-> [type |-> "object"],
          output_schema |-> [type |-> "object"],
          confidence |-> ConfidenceOf(g.sim),
          evidence |-> <<Evidence("file", None, f.path, None, <<0, 1>>)>> ]

\* mutant: the loop does not look at the candidates found so far
FallbackStep_NoCoveredCheck(ts, f) ==
    IF LooksLikeToolFile(f.path) THEN Append(ts, FallbackCandidate(f)) ELSE ts

\* one iteration of the fallback loop
FallbackStep(ts, f) ==
    IF LooksLikeToolFile(f.path) /\ ~Covered(ts, f.path)
    THEN Append(ts, FallbackCandidate(f))
    ELSE ts

\* the fallback loop of extract_tools over the files, from the tools so far
RECURSIVE FallbackPass(_, _)
FallbackPass(fs, ts) ==
    IF fs = <<>> THEN ts
    ELSE FallbackPass(Tail(fs), FallbackStep(ts, Head(fs)))

\* extract_tools, when it does not raise: the three passes in order
extract_tools(fs) ==
    FallbackPass(fs, extract_python_tools(fs) \o extract_js_tools(fs))

(***************************************************************************)
(* transport_detector.py                                                   *)
(***************************************************************************)
TRANSPORTS == <<"stdio", "websocket", "http", "sse">>

KW_flask == <<"f","l","a","s","k">>
KW_express == <<"e","x","p","r","e","s","s">>
KW_fastapi == <<"f","a","s","t","a","p","i">>
KW_websocket == <<"w","e","b","s","o","c","k","e","t">>
KW_socketio == <<"s","o","c","k","e","t",".","i","o">>
KW_eventsource == <<"e","v","e","n","t","s","o","u","r","c","e">>
KW_eventstream == <<"t","e","x","t","/","e","v","e","n","t","-","s","t","r","e","a","m">>
KW_stdin == <<"s","y","s",".","s","t","d","i","n">>
KW_argparse == <<"a","r","g","p","a","r","s","e">>

\* the keyword tests of detect_transport, in the order the loop body makes them
TransportChecks == <<
    [transport |-> "http", label |-> "HTTP", keywords |-> {KW_flask, KW_express, KW_fastapi}],
    [transport |-> "websocket", label |-> "WS", keywords |-> {KW_websocket, KW_socketio}],
    [transport |-> "sse", label |-> "SSE", keywords |-> {KW_eventsource, KW_eventstream}],
    [transport |-> "stdio", label |-> "CLI", keywords |-> {KW_stdin, KW_argparse}] >>

\* one `if ... in c` test on c = f["content"].lower()
TransportHit(f, check) ==
    LET c == Lower(f.content.text)
    IN  \E kw \in check.keywords : Contains(c, kw)

\* the loop body for one file: scores and evidence afterwards
ScoreFile(acc, f) ==
    LET hits == SelectSeq(TransportChecks, LAMBDA ch : TransportHit(f, ch))
    IN  [ scores |-> [t \in Range(TRANSPORTS) |->
                        acc.scores[t] + (IF \E k \in DOMAIN hits : hits[k].transport = t
                                         THEN 1 ELSE 0)],
          evidence |-> acc.evidence \o
                       [k \in DOMAIN hits |-> [label |-> hits[k].label, path |-> f.path]] ]

RECURSIVE ScoreFiles(_, _)
ScoreFiles(fs, acc) ==
    IF fs = <<>> THEN acc ELSE ScoreFiles(Tail(fs), ScoreFile(acc, Head(fs)))

\* mutant: the last key of maximal value
FirstMax_Last(order, scores) ==
    order[CHOOSE i \in DOMAIN order :
            /\ \A j \in DOMAIN order : scores[order[j]] <= scores[order[i]]
            /\ \A j \in (i + 1)..Len(order) : scores[order[j]] < scores[order[i]]]

\* max(scores, key=scores.get): the first key, in insertion order, of maximal value
FirstMax(order, scores) ==
    order[CHOOSE i \in DOMAIN order :
            /\ \A j \in DOMAIN order : scores[order[j]] <= scores[order[i]]
            /\ \A j \in 1..(i - 1) : scores[order[j]] < scores[order[i]]]

ConfidenceHit == 100
ConfidenceNoHit == 10

\* mutant: a score of zero counts as a hit
detect_transport_ZeroIsHit(fs) ==
    LET acc == ScoreFiles(fs, [scores |-> [t \in Range(TRANSPORTS) |-> 0], evidence |-> <<>>])
        best == FirstMax(TRANSPORTS, acc.scores)
    IN  [ type |-> best,
          confidence |-> IF acc.scores[best] >= 0 THEN ConfidenceHit ELSE ConfidenceNoHit,
          evidence |-> acc.evidence ]

\* detect_transport
detect_transport(fs) ==
    LET acc == ScoreFiles(fs, [scores |-> [t \in Range(TRANSPORTS) |-> 0], evidence |-> <<>>])
        best == FirstMax(TRANSPORTS, acc.scores)
    IN  [ type |-> best,
          confidence |-> IF acc.scores[best] > 0 THEN ConfidenceHit ELSE ConfidenceNoHit,
          evidence |-> acc.evidence ]

(***************************************************************************)
(* The inputs: a catalogue of paths and contents the trees are built from. *)
(***************************************************************************)
P_tools_a_py == <<"t","o","o","l","s","/","a",".","p","y">>
P_x_tools_b_js == <<"x","/","t","o","o","l","s","/","b",".","j","s">>
P_Cli_ts == <<"C","l","i",".","t","s">>
P_lib_u_py == <<"l","i","b","/","u",".","p","y">>
P_x_Tools_m_js == <<"x","/","T","o","o","l","s","/","m",".","j","s">>
P_commands_md == <<"c","o","m","m","a","n","d","s",".","m","d">>
P_mytools_md == <<"m","y","t","o","o","l","s",".","m","d">>

A_str == <<"s","t","r">>
A_int == <<"i","n","t">>
A_float == <<"f","l","o","a","t">>
A_bool == <<"b","o","o","l">>
A_list == <<"l","i","s","t">>
A_dict == <<"d","i","c","t">>
A_Any == <<"A","n","y">>
A_ListStr == <<"L","i","s","t","[","s","t","r","]">>
A_Point == <<"P","o","i","n","t">>

Arg(name, ann) == [arg |-> name, annotation |-> ann]

Item(key, vtype) == [constKey |-> TRUE, key |-> key, vtype |-> vtype]

\* return {"ok": True, "n": 1, "v": x, **extra, "ok": "done"}
R_dict == [isDict |-> TRUE,
           items |-> << Item("ok", A_bool), Item("n", A_int), Item("v", <<>>),
                        [constKey |-> FALSE, key |-> None, vtype |-> <<>>],
                        Item("ok", A_str) >>]
\* return x
R_other == [isDict |-> FALSE, items |-> <<>>]

Node(kind, name, lineno, args, ndefaults, returns, rets) ==
    [kind |-> kind, name |-> name, lineno |-> lineno, args |-> args,
     ndefaults |-> ndefaults, returns |-> returns, rets |-> rets]

\* def run(a: str, b: int = 1): ... return x ... return {...}
N_run == Node("FunctionDef", "run", 1, <<Arg("a", A_str), Arg("b", A_int)>>, 1,
              <<>>, <<R_other, R_dict>>)
\* class K: ...
N_class == Node("ClassDef", "K", 5, <<>>, 0, <<>>, <<>>)
\* def stop(self, n=0) -> bool: ...
N_stop == Node("FunctionDef", "stop", 9, <<Arg("self", <<>>), Arg("n", <<>>)>>, 1,
               A_bool, <<>>)
\* async def serve(): ...
N_serve == Node("AsyncFunctionDef", "serve", 2, <<>>, 0, <<>>, <<>>)
\* def run(p=1, /): ...     (a second definition of run, positional-only default)
N_posonly == Node("FunctionDef", "run", 4, <<>>, 1, <<>>, <<R_other>>)

Export(name, fnLine) == [name |-> name, fnLine |-> fnLine]

Answer(label, score) == [raises |-> FALSE, label |-> label, score |-> score]
Raise == [raises |-> TRUE, label |-> None, score |-> <<0, 1>>]

T_shell == "execute a shell command"
T_hash == "compute cryptographic hash of input data"

Content(text, parses, body, exports, match) ==
    [text |-> text, parses |-> parses, body |-> body, exports |-> exports,
     match |-> match]

\* "Flask"
K_http == Content(<<"F","l","a","s","k">>, TRUE, <<N_run, N_class, N_stop>>,
                  <<Export("g", 1), Export("h", 0)>>, Answer(T_shell, <<32, 243>>))
\* "WebSocket", not valid Python
K_ws == Content(<<"W","e","b","S","o","c","k","e","t">>, FALSE, <<>>,
                <<>>, Raise)
\* empty text
K_empty == Content(<<>>, TRUE, <<>>, <<Export("g", 0)>>, Answer(T_hash, <<0, 1>>))
\* "flask socket.io"
K_tie == Content(<<"f","l","a","s","k"," ","s","o","c","k","e","t",".","i","o">>,
                 TRUE, <<N_serve, N_run>>, <<Export("g", 2), Export("g", 2)>>,
                 Answer(T_hash, <<-1, 1>>))
\* "argparse EventSource"
K_cli == Content(<<"a","r","g","p","a","r","s","e"," ",
                   "E","v","e","n","t","S","o","u","r","c","e">>,
                 TRUE, <<N_posonly>>, <<>>, Answer(T_shell, <<1, 1>>))

\* "x", a text on which best_template raises
K_boom == Content(<<"x">>, TRUE, <<N_stop, N_class, N_run>>,
                  <<Export("h", 3), Export("g", 0)>>, Raise)

Entry(path, content) == [path |-> path, content |-> content]

\* the files a tree is built from
Entries == {
    Entry(P_tools_a_py, K_http),      \* Python functions in a tools-like file
    Entry(P_tools_a_py, K_ws),        \* malformed Python in a tools-like file
    Entry(P_lib_u_py, K_tie),         \* Python functions, not tools-like
    Entry(P_lib_u_py, K_cli),         \* Python whose schema inference raises
    Entry(P_x_tools_b_js, K_http),    \* JS exports in a tools-like file
    Entry(P_x_tools_b_js, K_cli),     \* JS without exports, tools-like
    Entry(P_Cli_ts, K_tie),           \* TS exports, tools-like
    Entry(P_x_Tools_m_js, K_empty),   \* JS export, not tools-like
    Entry(P_commands_md, K_cli) }     \* no extractor, tools-like

\* the trees: up to MaxFiles files, no path twice, in any walk order
Trees ==
    {t \in UNION {[1..n -> Entries] : n \in 0..MaxFiles} :
        \A i, j \in DOMAIN t : i # j => t[i].path # t[j].path}

(***************************************************************************)
(* main.py analyze / server.py safe_analyze_repo: the pipeline, run up to  *)
(* MaxRuns times on the same tree.                                         *)
(***************************************************************************)
\* no verdict yet
NoVerdict == [type |-> None, confidence |-> 0, evidence |-> <<>>]

\* the harness variables of the pure-function specifications, at rest
HarnessIdle ==
    /\ fnode = None /\ fschema = None /\ sim = None /\ conf = 0
    /\ disk = <<>> /\ reqs = <<>> /\ run_template = None

Init ==
    /\ tree \in Trees
    /\ emb \in BOOLEAN
    /\ pc = "idle"
    /\ files = <<>>
    /\ transport = NoVerdict
    /\ tools = <<>>
    /\ reports = <<>>
    /\ HarnessIdle

\* files = index_repo(repo_path)
IndexRepo ==
    /\ pc = "idle"
    /\ Len(reports) < MaxRuns
    /\ files' = index_repo(tree)
    /\ pc' = "indexed"
    /\ UNCHANGED <<tree, emb, transport, tools, reports, fnode, fschema, sim, conf,
                   disk, reqs, run_template>>

\* transport = detect_transport(files)
DetectTransport ==
    /\ pc = "indexed"
    /\ transport' = detect_transport(files)
    /\ pc' = "detected"
    /\ UNCHANGED <<tree, emb, files, tools, reports, fnode, fschema, sim, conf,
                   disk, reqs, run_template>>

\* mutant: the list is not emptied at the start of extract_tools
ExtractPython_NoReset ==
    /\ pc = "detected"
    /\ IF PythonRaises(files)
       THEN /\ tools' = <<>>
            /\ pc' = "raised"
       ELSE /\ tools' = tools \o extract_python_tools(files)
            /\ pc' = "python"
    /\ UNCHANGED <<tree, emb, files, transport, reports, fnode, fschema, sim, conf,
                   disk, reqs, run_template>>

\* extract_tools: tools = []; tools.extend(extract_python_tools(files))
ExtractPython ==
    /\ pc = "detected"
    /\ IF PythonRaises(files)
       THEN /\ tools' = <<>>
            /\ pc' = "raised"
       ELSE /\ tools' = <<>> \o extract_python_tools(files)
            /\ pc' = "python"
    /\ UNCHANGED <<tree, emb, files, transport, reports, fnode, fschema, sim, conf,
                   disk, reqs, run_template>>

\* mutant: the JS/TS candidates are put in front of the list
ExtractJs_Prepends ==
    /\ pc = "python"
    /\ tools' = extract_js_tools(files) \o tools
    /\ pc' = "js"
    /\ UNCHANGED <<tree, emb, files, transport, reports, fnode, fschema, sim, conf,
                   disk, reqs, run_template>>

\* extract_tools: tools.extend(extract_js_tools(files))
ExtractJs ==
    /\ pc = "python"
    /\ tools' = tools \o extract_js_tools(files)
    /\ pc' = "js"
    /\ UNCHANGED <<tree, emb, files, transport, reports, fnode, fschema, sim, conf,
                   disk, reqs, run_template>>

\* extract_tools: the fallback loop, then return tools
ExtractFallback ==
    /\ pc = "js"
    /\ tools' = FallbackPass(files, tools)
    /\ pc' = "extracted"
    /\ UNCHANGED <<tree, emb, files, transport, reports, fnode, fschema, sim, conf,
                   disk, reqs, run_template>>

\* make_report and save_report
Report ==
    /\ pc = "extracted"
    /\ reports' = Append(reports, [status |-> "ok", transport |-> transport, tools |-> tools])
    /\ pc' = "idle"
    /\ UNCHANGED <<tree, emb, files, transport, tools, fnode, fschema, sim, conf,
                   disk, reqs, run_template>>

\* the exception of extract_tools leaves analyze: no report
Fail ==
    /\ pc = "raised"
    /\ reports' = Append(reports, [status |-> "IndexError", transport |-> NoVerdict, tools |-> <<>>])
    /\ pc' = "idle"
    /\ UNCHANGED <<tree, emb, files, transport, tools, fnode, fschema, sim, conf,
                   disk, reqs, run_template>>

Next ==
    \/ IndexRepo
    \/ DetectTransport
    \/ ExtractPython
    \/ ExtractJs
    \/ ExtractFallback
    \/ Report
    \/ Fail

Spec == Init /\ [][Next]_vars

(***************************************************************************)
(* The same pipeline on trees of files that fail: malformed Python, texts  *)
(* on which the embedding backend raises, and paths next to the fallback   *)
(* pass's path test.                                                       *)
(***************************************************************************)
EdgeEntries == {
    Entry(P_tools_a_py, K_ws),        \* malformed Python in a tools-like file
    Entry(P_tools_a_py, K_http),      \* Python functions in a tools-like file
    Entry(P_lib_u_py, K_ws),          \* malformed Python, not tools-like
    Entry(P_lib_u_py, K_boom),        \* Python functions, best_template raises
    Entry(P_lib_u_py, K_cli),         \* Python whose schema inference raises
    Entry(P_Cli_ts, K_boom),          \* TS exports, best_template raises
    Entry(P_mytools_md, K_empty),     \* "tools" inside a file name
    Entry(P_commands_md, K_cli) }     \* no extractor, tools-like

EdgeTrees ==
    {t \in UNION {[1..n -> EdgeEntries] : n \in 0..MaxFiles} :
        \A i, j \in DOMAIN t : i # j => t[i].path # t[j].path}

InitEdge ==
    /\ tree \in EdgeTrees
    /\ emb \in BOOLEAN
    /\ pc = "idle"
    /\ files = <<>>
    /\ transport = NoVerdict
    /\ tools = <<>>
    /\ reports = <<>>
    /\ HarnessIdle

SpecEdge == InitEdge /\ [][Next]_vars

(***************************************************************************)
(* _infer_input_schema_from_ast on generated declarations.                 *)
(***************************************************************************)
MaxPosOnlyDefaults == 2   \* defaults of positional-only parameters

ArgNames == {"a", "b", "c", "self"}
Annotations ==
    {<<>>, A_str, A_int, A_float, A_bool, A_list, A_dict, A_Any, A_ListStr, A_Point}

\* parameter lists: up to MaxArgs parameters, no name twice
ArgLists ==
    {as \in UNION {[1..n -> [arg : ArgNames, annotation : Annotations]] : n \in 0..MaxArgs} :
        \A i, j \in DOMAIN as : i # j => as[i].arg # as[j].arg}

\* declarations def f(...): every parameter list with every number of defaults
\* (those of positional-only parameters included)
FunctionDefs ==
    {n \in {Node("FunctionDef", "f", 1, as, nd, <<>>, <<>>) :
                as \in ArgLists, nd \in 0..(MaxArgs + MaxPosOnlyDefaults)} :
        n.ndefaults <= Len(n.args) + MaxPosOnlyDefaults}

InitSchema ==
    /\ fnode \in FunctionDefs
    /\ fschema = None
    /\ pc = "node"
    /\ tree = <<>> /\ emb = FALSE /\ files = <<>> /\ transport = NoVerdict
    /\ tools = <<>> /\ reports = <<>> /\ sim = None /\ conf = 0
    /\ disk = <<>> /\ reqs = <<>> /\ run_template = None

\* input_schema = _infer_input_schema_from_ast(node, src)
InferInputSchema ==
    /\ pc = "node"
    /\ ~InputSchemaRaises(fnode)
    /\ fschema' = _infer_input_schema_from_ast(fnode)
    /\ pc' = "inferred"
    /\ UNCHANGED <<tree, emb, files, transport, tools, reports, fnode, sim, conf,
                   disk, reqs, run_template>>

\* the same call raising IndexError
InferInputSchemaRaise ==
    /\ pc = "node"
    /\ InputSchemaRaises(fnode)
    /\ fschema' = "IndexError"
    /\ pc' = "raised"
    /\ UNCHANGED <<tree, emb, files, transport, tools, reports, fnode, sim, conf,
                   disk, reqs, run_template>>

NextSchema == InferInputSchema \/ InferInputSchemaRaise

SpecSchema == InitSchema /\ [][NextSchema]_vars

(***************************************************************************)
(* scale_confidence on generated similarities.                             *)
(***************************************************************************)
\* similarities in [0,1]: (a/b)^5; outside: below 0 and above 1
UnitSims ==
    {r \in {<<Pow(a, 5), Pow(b, 5)>> : a \in 0..MaxRoot, b \in 1..MaxRoot} : r[1] <= r[2]}

SimInputs ==
    UnitSims \cup {<<-1, 1>>, <<-1, 32>>, <<-7, 2>>, <<2, 1>>, <<33, 32>>, <<7, 2>>}

Floors == {DefaultFloor, 0, -20, 50}
Ceilings == {DefaultCeiling, 100, 130, 40}

InitScale ==
    /\ sim \in SimInputs \X Floors \X Ceilings
    /\ conf = 0
    /\ pc = "sim"
    /\ tree = <<>> /\ emb = FALSE /\ files = <<>> /\ transport = NoVerdict
    /\ tools = <<>> /\ reports = <<>> /\ fnode = None /\ fschema = None
    /\ disk = <<>> /\ reqs = <<>> /\ run_template = None

\* conf = scale_confidence(sim, floor, ceiling)
ScaleConfidence ==
    /\ pc = "sim"
    /\ conf' = scale_confidence(sim[1], sim[2], sim[3])
    /\ pc' = "scaled"
    /\ UNCHANGED <<tree, emb, files, transport, tools, reports, fnode, fschema, sim,
                   disk, reqs, run_template>>

NextScale == ScaleConfidence

SpecScale == InitScale /\ [][NextScale]_vars

(***************************************************************************)
(* server.py /mcp/clone-analyze with repo_loader.py clone_git_repo: the    *)
(* endpoint is a plain def, so the requests are served concurrently by     *)
(* worker threads; a request's steps interleave with the other requests'   *)
(* steps at every file-system operation.                                   *)
(***************************************************************************)
MaxRequests == 2   \* requests in flight

\* "h/a/t.git", "h/b/t.git", "h/u.git"
U_a_t == <<"h","/","a","/","t",".","g","i","t">>
U_b_t == <<"h","/","b","/","t",".","g","i","t">>
U_u == <<"h","/","u",".","g","i","t">>
GitUrls == {U_a_t, U_b_t, U_u}

\* "s"
D_s == <<"s">>
\* payload.name: absent, or "s"
DestNames == {<<>>, D_s}

\* the repository a URL serves
Remote(git) ==
    IF git = U_a_t THEN <<Entry(P_tools_a_py, K_http), Entry(P_commands_md, K_cli)>>
    ELSE IF git = U_b_t THEN <<Entry(P_x_tools_b_js, K_http)>>
    ELSE <<Entry(P_lib_u_py, K_tie)>>

\* dest = WORK_DIR / (dest_name or Path(git_url).stem), relative to WORK_DIR
DestOf(git, name) == IF name # <<>> THEN name ELSE PathStem(git)

Dests == {DestOf(g, n) : g \in GitUrls, n \in DestNames}

\* a destination of working_repos/: missing, or a directory holding a tree
Absent == [exists |-> FALSE, tree |-> <<>>]
Present(t) == [exists |-> TRUE, tree |-> t]

NoReport == [status |-> None, transport |-> NoVerdict, tools |-> <<>>]

IdleRequest ==
    [pc |-> "idle", git |-> <<>>, name |-> <<>>, dest |-> <<>>,
     files |-> <<>>, report |-> NoReport]

InitServer ==
    /\ reqs = [r \in 1..MaxRequests |-> IdleRequest]
    /\ disk = [d \in Dests |-> Absent]
    /\ emb = TRUE
    /\ pc = "serving"
    /\ tree = <<>> /\ files = <<>> /\ transport = NoVerdict
    /\ tools = <<>> /\ reports = <<>>
    /\ fnode = None /\ fschema = None /\ sim = None /\ conf = 0
    /\ run_template = None

\* clone_and_analyze is entered with a payload
Receive(r, git, name) ==
    /\ reqs[r].pc = "idle"
    /\ reqs' = [reqs EXCEPT ![r].pc = "acquire", ![r].git = git, ![r].name = name]
    /\ UNCHANGED <<tree, emb, pc, files, transport, tools, reports, fnode, fschema,
                   sim, conf, disk, run_template>>

\* clone_git_repo: dest is computed; if dest.exists(): force_delete(dest)
Acquire(r) ==
    /\ reqs[r].pc = "acquire"
    /\ LET dest == DestOf(reqs[r].git, reqs[r].name)
       IN  /\ reqs' = [reqs EXCEPT ![r].pc = "clone", ![r].dest = dest]
           /\ disk' = [disk EXCEPT ![dest] = Absent]
    /\ UNCHANGED <<tree, emb, pc, files, transport, tools, reports, fnode, fschema,
                   sim, conf, run_template>>

\* clone_git_repo: Repo.clone_from(git_url, dest) into a missing destination
Clone(r) ==
    /\ reqs[r].pc = "clone"
    /\ ~disk[reqs[r].dest].exists
    /\ disk' = [disk EXCEPT ![reqs[r].dest] = Present(Remote(reqs[r].git))]
    /\ reqs' = [reqs EXCEPT ![r].pc = "index"]
    /\ UNCHANGED <<tree, emb, pc, files, transport, tools, reports, fnode, fschema,
                   sim, conf, run_template>>

\* Repo.clone_from finds the destination present and not empty: git fails,
\* clone_and_analyze answers HTTP 500
CloneFails(r) ==
    /\ reqs[r].pc = "clone"
    /\ disk[reqs[r].dest].exists
    /\ reqs' = [reqs EXCEPT ![r].pc = "failed",
                            ![r].report = [NoReport EXCEPT !.status = "500"]]
    /\ UNCHANGED <<tree, emb, pc, files, transport, tools, reports, fnode, fschema,
                   sim, conf, disk, run_template>>

\* the walk of index_repo has a next file under the destination
WalkHasNext(r) ==
    /\ disk[reqs[r].dest].exists
    /\ Len(reqs[r].files) < Len(disk[reqs[r].dest].tree)

\* index_repo: one iteration of the loop over root.rglob('*'), on what the
\* destination holds at that moment
IndexFile(r) ==
    /\ reqs[r].pc = "index"
    /\ WalkHasNext(r)
    /\ reqs' = [reqs EXCEPT ![r].files =
                   Append(@, FileRecord(disk[reqs[r].dest].tree[Len(@) + 1]))]
    /\ UNCHANGED <<tree, emb, pc, files, transport, tools, reports, fnode, fschema,
                   sim, conf, disk, run_template>>

\* index_repo: the walk is exhausted, return files
IndexEnd(r) ==
    /\ reqs[r].pc = "index"
    /\ ~WalkHasNext(r)
    /\ reqs' = [reqs EXCEPT ![r].pc = "analyze"]
    /\ UNCHANGED <<tree, emb, pc, files, transport, tools, reports, fnode, fschema,
                   sim, conf, disk, run_template>>

\* safe_analyze_repo after index_repo: detect_transport, extract_tools,
\* make_report, save_report under a fresh name
Analyze(r) ==
    /\ reqs[r].pc = "analyze"
    /\ reqs' = [reqs EXCEPT
                  ![r].pc = "done",
                  ![r].report =
                      IF PythonRaises(reqs[r].files)
                      THEN [NoReport EXCEPT !.status = "IndexError"]
                      ELSE [status |-> "ok",
                            transport |-> detect_transport(reqs[r].files),
                            tools |-> extract_tools(reqs[r].files)]]
    /\ UNCHANGED <<tree, emb, pc, files, transport, tools, reports, fnode, fschema,
                   sim, conf, disk, run_template>>

NextServer ==
    \E r \in 1..MaxRequests :
        \/ \E git \in GitUrls, name \in DestNames : Receive(r, git, name)
        \/ Acquire(r)
        \/ Clone(r)
        \/ CloneFails(r)
        \/ IndexFile(r)
        \/ IndexEnd(r)
        \/ Analyze(r)

SpecServer == InitServer /\ [][NextServer]_vars

(***************************************************************************)
(* main.py infer_run_template, on generated file lists.  Here a file's     *)
(* content is the sequence of its lines: the keywords searched in the      *)
(* lower-cased text hold no line break, so they occur in the text exactly  *)
(* when they occur in a line.                                              *)
(***************************************************************************)
MaxRunFiles == 3   \* files of a list

RT_uvicorn == <<"u","v","i","c","o","r","n">>
RT_app == <<"a","p","p">>
RT_flask == <<"f","l","a","s","k">>
RT_app_run == <<"a","p","p",".","r","u","n","(">>
RT_npm_start == <<"n","p","m"," ","s","t","a","r","t">>
RT_package_json == <<"p","a","c","k","a","g","e",".","j","s","o","n">>
RT_readme == <<"r","e","a","d","m","e">>
RT_python == <<"p","y","t","h","o","n">>
RT_run == <<"r","u","n">>

\* "uvicorn main:app --host 0.0.0.0 --port 8000", "python app.py", "npm start"
CMD_uvicorn ==
    <<"u","v","i","c","o","r","n"," ","m","a","i","n",":","a","p","p"," ","-",
      "-","h","o","s","t"," ","0",".","0",".","0",".","0"," ",
      "-","-","p","o","r","t"," ","8","0","0","0">>
CMD_flask == <<"p","y","t","h","o","n"," ","a","p","p",".","p","y">>
CMD_npm == <<"n","p","m"," ","s","t","a","r","t">>

ConfUvicorn == 85
ConfFlask == 70
ConfNpm == 70
ConfReadme == 40

\* cmd: None, or a string
NullCmd == [null |-> TRUE, text |-> <<>>]
Cmd(text) == [null |-> FALSE, text |-> text]
\* `not cmd`
Falsy(cmd) == cmd.null \/ cmd.text = <<>>

\* kw in f["content"].lower()
InText(ls, kw) == \E i \in DOMAIN ls : Contains(Lower(ls[i]), kw)

IsSpace(ch) == ch \in {" ", "\t"}

RECURSIVE LStrip(_)
LStrip(L) == IF L # <<>> /\ IsSpace(Head(L)) THEN LStrip(Tail(L)) ELSE L

RECURSIVE RStrip(_)
RStrip(L) ==
    IF L # <<>> /\ IsSpace(L[Len(L)]) THEN RStrip(SubSeq(L, 1, Len(L) - 1)) ELSE L

\* L.strip()
Strip(L) == RStrip(LStrip(L))

\* the first loop of infer_run_template over the files left, from the
\* cmd, conf and evidence so far
RECURSIVE FrameworkLoop(_, _)
FrameworkLoop(fs, acc) ==
    IF fs = <<>> THEN acc
    ELSE LET p == Head(fs).path
             c == Head(fs).content
         IN  IF InText(c, RT_uvicorn) /\ InText(c, RT_app)
             THEN [cmd |-> Cmd(CMD_uvicorn), confidence |-> ConfUvicorn,
                   evidence |-> Append(acc.evidence, "uvicorn reference")]
             ELSE IF InText(c, RT_flask) /\ InText(c, RT_app_run)
             THEN [cmd |-> Cmd(CMD_flask), confidence |-> ConfFlask,
                   evidence |-> Append(acc.evidence, "flask app.run found")]
             ELSE IF InText(c, RT_npm_start) \/ Contains(p, RT_package_json)
             THEN FrameworkLoop(Tail(fs),
                      [cmd |-> Cmd(CMD_npm), confidence |-> ConfNpm,
                       evidence |-> Append(acc.evidence, "npm start or package.json")])
             ELSE FrameworkLoop(Tail(fs), acc)

\* "python" in L or "run" in L
HintLine(L) == Contains(L, RT_python) \/ Contains(L, RT_run)

\* the second loop of infer_run_template over the files left
RECURSIVE ReadmeLoop(_, _)
ReadmeLoop(fs, acc) ==
    IF fs = <<>> THEN acc
    ELSE LET ls == Head(fs).content
             hits == {i \in DOMAIN ls : HintLine(ls[i])}
         IN  IF StartsWith(Lower(Head(fs).path), RT_readme) /\ hits # {}
             THEN LET L == ls[CHOOSE i \in hits : \A j \in hits : i <= j]
                      hit == [cmd |-> Cmd(Strip(L)), confidence |-> ConfReadme,
                              evidence |-> Append(acc.evidence, "readme run hint")]
                  IN  IF Falsy(hit.cmd) THEN ReadmeLoop(Tail(fs), hit) ELSE hit
             ELSE ReadmeLoop(Tail(fs), acc)

NothingFound == [cmd |-> NullCmd, confidence |-> 0, evidence |-> <<>>]

\* mutant: the README files are consulted whatever the first loop found
infer_run_template_ReadmeAlways(fs) ==
    ReadmeLoop(fs, FrameworkLoop(fs, NothingFound))

infer_run_template(fs) ==
    LET a == FrameworkLoop(fs, NothingFound)
    IN  IF Falsy(a.cmd) THEN ReadmeLoop(fs, a) ELSE a

RunFile(path, ls) == [path |-> path, content |-> ls]

RunFiles == {
    \* main.py: "Uvicorn" / "app"
    RunFile(<<"m","a","i","n",".","p","y">>, <<<<"U","v","i","c","o","r","n">>, <<"a","p","p">>>>),
    \* u.py: "uvicorn"
    RunFile(<<"u",".","p","y">>, <<<<"u","v","i","c","o","r","n">>>>),
    \* app.py: "Flask" / "app.run()"
    RunFile(<<"a","p","p",".","p","y">>, <<<<"F","l","a","s","k">>, <<"a","p","p",".","r","u","n","(",")">>>>),
    \* s.sh: "npm start"
    RunFile(<<"s",".","s","h">>, <<<<"n","p","m"," ","s","t","a","r","t">>>>),
    \* package.json: "{}"
    RunFile(<<"p","a","c","k","a","g","e",".","j","s","o","n">>, <<<<"{","}">>>>),
    \* README.md: "#" / " python x.py "
    RunFile(<<"R","E","A","D","M","E",".","m","d">>, <<<<"#">>, <<" ","p","y","t","h","o","n"," ","x",".","p","y"," ">>>>),
    \* readme: "Run it"
    RunFile(<<"r","e","a","d","m","e">>, <<<<"R","u","n"," ","i","t">>>>),
    \* Readme.txt: "to run: npm start"
    RunFile(<<"R","e","a","d","m","e",".","t","x","t">>, <<<<"t","o"," ","r","u","n",":"," ","n","p","m"," ","s","t","a","r","t">>>>),
    \* x.md: "python x.py"
    RunFile(<<"x",".","m","d">>, <<<<"p","y","t","h","o","n"," ","x",".","p","y">>>>) }

\* file lists: up to MaxRunFiles files, no path twice
RunFileLists ==
    {fs \in UNION {[1..n -> RunFiles] : n \in 0..MaxRunFiles} :
        \A i, j \in DOMAIN fs : i # j => fs[i].path # fs[j].path}

InitRun ==
    /\ files \in RunFileLists
    /\ run_template = None
    /\ pc = "files"
    /\ tree = <<>> /\ emb = FALSE /\ transport = NoVerdict
    /\ tools = <<>> /\ reports = <<>>
    /\ fnode = None /\ fschema = None /\ sim = None /\ conf = 0
    /\ disk = <<>> /\ reqs = <<>>

\* run_template = infer_run_template(files)
InferRunTemplate ==
    /\ pc = "files"
    /\ run_template' = infer_run_template(files)
    /\ pc' = "templated"
    /\ UNCHANGED <<tree, emb, files, transport, tools, reports, fnode, fschema,
                   sim, conf, disk, reqs>>

NextRun == InferRunTemplate

SpecRun == InitRun /\ [][NextRun]_vars

(***************************************************************************)
(* Properties of the tool catalogue.                                       *)
(***************************************************************************)
\* which pass produced a candidate, read off its first evidence entry
IsPython(t) == t.evidence # <<>> /\ t.evidence[1].kind = "function"
IsJs(t) == t.evidence # <<>> /\ t.evidence[1].kind = "exported"
IsFallback(t) == ~IsPython(t) /\ ~IsJs(t)

PassRank(t) == IF IsPython(t) THEN 1 ELSE IF IsJs(t) THEN 2 ELSE 3

\* extract_tools has returned the list in `tools`
Extracted == pc = "extracted"

\* C1: a candidate of the fallback pass is the only candidate of its file:
\* the fallback pass adds nothing for a file that structural extraction
\* covered, and adds at most one candidate per file.
C1_FallbackNeverDuplicates ==
    \A i, j \in DOMAIN tools :
        (i # j /\ IsFallback(tools[i]))
            => tools[i].predicted_filename # tools[j].predicted_filename

\* a Python function found in tools/a.py, no fallback candidate for it, and a
\* fallback candidate for another file of the run
C1_Witness ==
    /\ Extracted
    /\ \E i \in DOMAIN tools :
          IsPython(tools[i]) /\ tools[i].predicted_filename = P_tools_a_py
    /\ \E j \in DOMAIN tools : IsFallback(tools[j])

\* position of a candidate's file in the file list
FileIndexOf(t) == CHOOSE k \in DOMAIN files : files[k].path = t.predicted_filename

\* the candidates of one pass for one file, in list order
CandidatesOf(path, rank) ==
    SelectSeq(tools, LAMBDA t : PassRank(t) = rank /\ t.predicted_filename = path)

\* C2: Python candidates precede JS/TS candidates, which precede fallback
\* candidates; within a pass the candidates follow the order of the file
\* list, and within one file the order of the declarations (the top-level
\* function definitions, the matches of the export pattern).
C2_PassFileDeclarationOrder ==
    /\ \A i, j \in DOMAIN tools :
          i < j => /\ PassRank(tools[i]) <= PassRank(tools[j])
                   /\ PassRank(tools[i]) = PassRank(tools[j])
                        => FileIndexOf(tools[i]) <= FileIndexOf(tools[j])
    /\ pc \in {"python", "js", "extracted"} =>
          \A k \in DOMAIN files :
              LET f == files[k]
                  py == CandidatesOf(f.path, 1)
                  defs == SelectSeq(f.content.body, LAMBDA n : n.kind = "FunctionDef")
              IN  /\ (f.language = "python" /\ f.content.parses) =>
                        /\ Len(py) = Len(defs)
                        /\ \A d \in DOMAIN defs :
                              /\ py[d].name = defs[d].name
                              /\ py[d].predicted_code_snippet.at = defs[d].lineno
                  /\ ~(f.language = "python" /\ f.content.parses) => py = <<>>
    /\ pc \in {"js", "extracted"} =>
          \A k \in DOMAIN files :
              LET f == files[k]
                  js == CandidatesOf(f.path, 2)
              IN  /\ f.language \in {"javascript", "typescript"} =>
                        /\ Len(js) = Len(f.content.exports)
                        /\ \A d \in DOMAIN js : js[d].name = f.content.exports[d].name
                  /\ f.language \notin {"javascript", "typescript"} => js = <<>>

\* all three passes contributed, two functions of one file appear in
\* declaration order, and the list is not sorted by confidence either way
C2_Witness ==
    /\ Extracted
    /\ \E i, j, k \in DOMAIN tools :
          IsPython(tools[i]) /\ IsJs(tools[j]) /\ IsFallback(tools[k])
    /\ \E i, j \in DOMAIN tools :
          /\ i < j /\ IsPython(tools[i]) /\ IsPython(tools[j])
          /\ tools[i].predicted_filename = tools[j].predicted_filename
    /\ \E i, j \in DOMAIN tools : i < j /\ tools[i].confidence < tools[j].confidence
    /\ \E i, j \in DOMAIN tools : i < j /\ tools[i].confidence > tools[j].confidence

\* C3: every candidate has at least one evidence entry, and its
\* predicted_filename is the path of a file record of the run's file list.
C3_EvidenceAndIndexedPath ==
    \A i \in DOMAIN tools :
        /\ Len(tools[i].evidence) >= 1
        /\ \E k \in DOMAIN files : files[k].path = tools[i].predicted_filename

\* the file whose text a candidate was built from
FileOf(t) == files[FileIndexOf(t)]

\* with the backend available, candidates of all three passes, one of them
\* built while best_template raised
C3_Witness ==
    /\ Extracted /\ emb
    /\ \E i, j, k \in DOMAIN tools :
          IsPython(tools[i]) /\ IsJs(tools[j]) /\ IsFallback(tools[k])
    /\ \E i \in DOMAIN tools : BestTemplateRaises(FileOf(tools[i]).content)

SchemasOf(t) == {t.input_schema, t.output_schema}

\* C4: in every input and output schema of every candidate, each name listed
\* in `required` is a key of `properties`.
C4_RequiredAreProperties ==
    \A i \in DOMAIN tools : \A sch \in SchemasOf(tools[i]) :
        "required" \in DOMAIN sch =>
            /\ "properties" \in DOMAIN sch
            /\ \A r \in DOMAIN sch.required : DictHas(sch.properties, sch.required[r])

\* a Python candidate whose input schema and dict-literal output schema both
\* list required names, beside a JS and a fallback candidate
C4_Witness ==
    /\ Extracted
    /\ \E i \in DOMAIN tools :
          /\ IsPython(tools[i])
          /\ "required" \in DOMAIN tools[i].output_schema
          /\ Len(tools[i].output_schema.required) >= 2
          /\ Len(tools[i].input_schema.required) >= 1
          /\ Len(tools[i].input_schema.properties) > Len(tools[i].input_schema.required)
    /\ \E j, k \in DOMAIN tools : IsJs(tools[j]) /\ IsFallback(tools[k])

\* C5: without an embedding backend every candidate has confidence 0.35.
C5_HeuristicConfidenceWithoutBackend ==
    ~emb => \A i \in DOMAIN tools : tools[i].confidence = 35

\* no backend, and candidates of all three passes
C5_Witness ==
    /\ Extracted /\ ~emb
    /\ \E i, j, k \in DOMAIN tools :
          IsPython(tools[i]) /\ IsJs(tools[j]) /\ IsFallback(tools[k])

(***************************************************************************)
(* Properties of the transport verdict.                                    *)
(***************************************************************************)
\* detect_transport has just returned the verdict in `transport` for `files`
Detected == pc = "detected"

\* the number of files in which a keyword of each transport occurs
HitCounts ==
    [t \in Range(TRANSPORTS) |->
        Cardinality({k \in DOMAIN files :
            \E c \in DOMAIN TransportChecks :
                TransportChecks[c].transport = t /\ TransportHit(files[k], TransportChecks[c])})]

MaxCount(counts) ==
    CHOOSE n \in Range(counts) : \A t \in DOMAIN counts : counts[t] <= n

\* the first transport of `order` among those of maximal hit count
FirstOfMaximal(order, counts) ==
    LET m == MaxCount(counts)
    IN  order[CHOOSE i \in DOMAIN order :
                /\ counts[order[i]] = m
                /\ \A j \in 1..(i - 1) : counts[order[j]] # m]

\* C7 as stated: the verdict is the first transport, in the order stdio, http,
\* websocket, sse, among those of maximal hit count.
C7_Original_FirstInStdioHttpWebsocketSse ==
    Detected =>
        transport.type = FirstOfMaximal(<<"stdio", "http", "websocket", "sse">>, HitCounts)

\* C7 amended: the verdict is the first transport, in the order stdio,
\* websocket, http, sse, among those of maximal hit count.
C7_FirstInStdioWebsocketHttpSse ==
    Detected =>
        transport.type = FirstOfMaximal(<<"stdio", "websocket", "http", "sse">>, HitCounts)

\* http and websocket tie on the maximum, and websocket is returned
C7_Witness ==
    /\ Detected
    /\ LET counts == HitCounts
       IN  /\ counts["http"] = MaxCount(counts)
           /\ counts["websocket"] = MaxCount(counts)
           /\ counts["stdio"] < MaxCount(counts)
    /\ transport.type = "websocket"

\* C8: the verdict names a transport of maximal hit count; its confidence is
\* 1.0 when some keyword occurs in some file and 0.1 when none does, and then
\* the transport is the first of the enumeration, stdio.
C8_MaximalTransportAndConfidence ==
    Detected =>
        LET counts == HitCounts
            m == MaxCount(counts)
        IN  /\ counts[transport.type] = m
            /\ m > 0 => transport.confidence = 100
            /\ m = 0 => transport.confidence = 10 /\ transport.type = "stdio"

\* files whose only transport keywords are websocket keywords: websocket, 1.0
C8_Witness ==
    /\ Detected
    /\ LET counts == HitCounts
       IN  /\ counts["websocket"] > 0
           /\ \A t \in Range(TRANSPORTS) \ {"websocket"} : counts[t] = 0
    /\ transport.type = "websocket" /\ transport.confidence = 100

(***************************************************************************)
(* Two runs on the same tree.                                              *)
(***************************************************************************)
\* C10: the runs of the pipeline on the unmodified tree (the backend absent
\* or deterministic) end alike, with the same verdict and the same list of
\* candidates, element by element.
C10_RunsAgree ==
    \A i, j \in DOMAIN reports :
        /\ reports[i].status = reports[j].status
        /\ reports[i].transport = reports[j].transport
        /\ Len(reports[i].tools) = Len(reports[j].tools)
        /\ \A k \in DOMAIN reports[i].tools : reports[i].tools[k] = reports[j].tools[k]

\* two completed runs with the backend available, several candidates and a
\* verdict from keyword hits
C10_Witness ==
    /\ Len(reports) >= 2 /\ emb
    /\ reports[2].status = "ok"
    /\ Len(reports[2].tools) >= 3
    /\ reports[2].transport.confidence = 100

(***************************************************************************)
(* Properties of the inferred input schema.                                *)
(***************************************************************************)
\* the type the annotation table gives each annotation of the catalogue:
\* no annotation is string, Any matches no key, List[str] contains str,
\* Point contains int
ExpectedType(ann) ==
    CASE ann = <<>> -> "string"
      [] ann = A_str -> "string"
      [] ann = A_int -> "integer"
      [] ann = A_float -> "number"
      [] ann = A_bool -> "boolean"
      [] ann = A_list -> "array"
      [] ann = A_dict -> "object"
      [] ann = A_Any -> "string"
      [] ann = A_ListStr -> "string"
      [] ann = A_Point -> "integer"

\* the parameter at position i is one of the trailing N that carry a default
CarriesDefault(node, i) == i > Len(node.args) - node.ndefaults

\* the names of the parameters of the schema at the positions `keep`, from
\* position i on, in declaration order
RECURSIVE SchemaNames(_, _, _)
SchemaNames(node, i, keep) ==
    IF i > Len(node.args) THEN <<>>
    ELSE (IF node.args[i].arg # "self" /\ i \in keep THEN <<node.args[i].arg>> ELSE <<>>)
            \o SchemaNames(node, i + 1, keep)

\* C9: the schema has one property per parameter (self aside); a parameter
\* is required unless it is one of the trailing N parameters carrying a
\* default, N the number of defaults of the declaration; its type is the
\* annotation table's, string when unannotated; `required` lists exactly the
\* required parameters, in declaration order.
C9_RequiredUnlessTrailingDefault ==
    pc = "inferred" =>
        /\ DictKeys(fschema.properties) = SchemaNames(fnode, 1, DOMAIN fnode.args)
        /\ \A i \in DOMAIN fnode.args :
              fnode.args[i].arg # "self" =>
                  LET prop == DictGet(fschema.properties, fnode.args[i].arg)
                  IN  /\ prop.required = ~CarriesDefault(fnode, i)
                      /\ prop.type = ExpectedType(fnode.args[i].annotation)
        /\ fschema.required = SchemaNames(fnode, 1, {i \in DOMAIN fnode.args : ~CarriesDefault(fnode, i)})

\* def f(a: str, b: int = 1): a is string and required, b is integer and
\* optional, required is [a]
C9_Witness ==
    /\ pc = "inferred"
    /\ fnode.args = <<Arg("a", A_str), Arg("b", A_int)>> /\ fnode.ndefaults = 1
    /\ DictGet(fschema.properties, "a") = [type |-> "string", required |-> TRUE]
    /\ DictGet(fschema.properties, "b") = [type |-> "integer", required |-> FALSE]
    /\ fschema.required = <<"a">>

(***************************************************************************)
(* Properties of the scaled confidence.                                    *)
(***************************************************************************)
\* C6: with the default floor and ceiling the confidence of every similarity,
\* those below 0 and above 1 included, lies in [0.0, 1.0], similarity 0.0
\* gives 0.15 and similarity 1.0 gives 0.98.  (The bounds are checked for
\* every floor and ceiling drawn, the defaults among them.)
C6_ConfidenceInUnitIntervalAndEndpoints ==
    pc = "scaled" =>
        /\ 0 <= conf /\ conf <= 100
        /\ (sim[2] = DefaultFloor /\ sim[3] = DefaultCeiling) =>
              /\ sim[1][1] = 0 => conf = 15
              /\ sim[1][1] = sim[1][2] => conf = 98

\* a similarity above 1 scaled with the defaults: clamped, 0.98
C6_Witness ==
    /\ pc = "scaled"
    /\ sim[2] = DefaultFloor /\ sim[3] = DefaultCeiling
    /\ sim[1][1] > sim[1][2]
    /\ conf = 98

(***************************************************************************)
(* Properties of error recovery and of the fallback pass.                  *)
(***************************************************************************)
\* ast.parse raises on the file's source
MalformedPython(f) == f.language = "python" /\ ~f.content.parses

\* the list without its k-th element
Without(q, k) == SubSeq(q, 1, k - 1) \o SubSeq(q, k + 1, Len(q))

\* the candidates of a list for one file, and for all other files
OfFile(ts, p) == SelectSeq(ts, LAMBDA t : t.predicted_filename = p)
NotOfFile(ts, p) == SelectSeq(ts, LAMBDA t : t.predicted_filename # p)

\* C12: a Python file that fails to parse is not fatal: an extraction that
\* raises would raise without the file too; when extract_tools returns, no
\* candidate of the structural passes is for that file, the candidates of
\* the other files are the list extract_tools returns for the file list
\* without it, and the file has exactly one candidate (of the fallback pass)
\* if its path passes the fallback pass's path test, none otherwise.
C12_MalformedPythonIsSkipped ==
    \A k \in DOMAIN files :
        MalformedPython(files[k]) =>
            LET p == files[k].path
                rest == Without(files, k)
            IN  /\ pc = "raised" => PythonRaises(rest)
                /\ Extracted =>
                      /\ ~PythonRaises(rest)
                      /\ \A i \in DOMAIN tools :
                            tools[i].predicted_filename = p => IsFallback(tools[i])
                      /\ NotOfFile(tools, p) = extract_tools(rest)
                      /\ Len(OfFile(tools, p)) = IF LooksLikeToolFile(p) THEN 1 ELSE 0

\* a malformed tools-like Python file indexed before a Python file with
\* functions: candidates for the later file, one fallback candidate for the
\* malformed one
C12_Witness ==
    /\ Extracted
    /\ \E k, j \in DOMAIN files :
          /\ k < j
          /\ MalformedPython(files[k]) /\ LooksLikeToolFile(files[k].path)
          /\ \E i \in DOMAIN tools :
                IsPython(tools[i]) /\ tools[i].predicted_filename = files[j].path
          /\ \E i \in DOMAIN tools :
                IsFallback(tools[i]) /\ tools[i].predicted_filename = files[k].path

\* the candidates a file yields: one per function definition or export
\* match, else one if the path passes the fallback test
CandidateCount(f) ==
    LET n == Len(PythonFunctionDefs(f)) + Len(JsToolsOfFile(f))
    IN  IF n > 0 THEN n ELSE IF LooksLikeToolFile(f.path) THEN 1 ELSE 0

\* the candidate carries no trace of a template match
NoTemplateTrace(t) ==
    /\ t.description.kind \in {"heuristic", "exported", "inferred"}
    /\ t.description.label = None
    /\ t.confidence = 35
    /\ \A e \in DOMAIN t.evidence : t.evidence[e].kind # "matched template"

\* C13: with the backend available, a best_template call that raises is
\* recovered in each pass: every candidate built from a text on which the
\* call raises has the description without template label, confidence 0.35
\* and no "matched template" evidence; the file still yields all its
\* candidates; and the saved report carries the same candidates.
C13_BestTemplateFailureRecovered ==
    emb =>
        /\ \A i \in DOMAIN tools :
              BestTemplateRaises(FileOf(tools[i]).content) => NoTemplateTrace(tools[i])
        /\ Extracted =>
              \A k \in DOMAIN files :
                  BestTemplateRaises(files[k].content)
                      => Len(OfFile(tools, files[k].path)) = CandidateCount(files[k])
        /\ (pc = "idle" /\ reports # <<>> /\ reports[Len(reports)].status = "ok")
              => reports[Len(reports)].tools = tools

\* the backend is available and best_template raised in all three passes:
\* a Python, a JS/TS and a fallback candidate built from raising texts, and
\* the run reported
C13_Witness ==
    /\ emb /\ pc = "idle" /\ reports # <<>>
    /\ reports[Len(reports)].status = "ok"
    /\ \E i, j, k \in DOMAIN tools :
          /\ IsPython(tools[i]) /\ IsJs(tools[j]) /\ IsFallback(tools[k])
          /\ BestTemplateRaises(FileOf(tools[i]).content)
          /\ BestTemplateRaises(FileOf(tools[j]).content)
          /\ BestTemplateRaises(FileOf(tools[k]).content)

\* the file's candidates are structural ones, or one fallback candidate built
\* from the file's leading lines
StructuralOrOneFallback(p) ==
    LET mine == OfFile(tools, p)
    IN  /\ Len(mine) >= 1
        /\ \/ \A i \in DOMAIN mine : ~IsFallback(mine[i])
           \/ /\ Len(mine) = 1
              /\ IsFallback(mine[1])
              /\ mine[1].predicted_code_snippet.kind = "head"

\* C14 as stated: every indexed file whose path contains "tools", "cli" or
\* "commands" has a candidate in the returned catalogue.
C14_Original_PathContainsToolsCliCommands ==
    Extracted =>
        \A k \in DOMAIN files :
            (\/ Contains(files[k].path, <<"t","o","o","l","s">>)
             \/ Contains(files[k].path, <<"c","l","i">>)
             \/ Contains(files[k].path, <<"c","o","m","m","a","n","d","s">>))
                => StructuralOrOneFallback(files[k].path)

\* the path contains "/tools/", or starts with "tools", contains "cli" or
\* contains "commands" whatever the case of the letters
UnderToolsOrCliOrCommands(p) ==
    \/ Contains(p, <<"/","t","o","o","l","s","/">>)
    \/ StartsWith(Lower(p), <<"t","o","o","l","s">>)
    \/ Contains(Lower(p), <<"c","l","i">>)
    \/ Contains(Lower(p), <<"c","o","m","m","a","n","d","s">>)

\* C14: every indexed file whose path contains "/tools/", or, ignoring case,
\* starts with "tools" or contains "cli" or "commands", has a candidate in
\* the catalogue extract_tools returns: structural candidates if extraction
\* hit the file, otherwise exactly one fallback candidate built from the
\* file's leading lines; a file of any other path has no fallback candidate.
C14_ToolsLikeFilesAreCatalogued ==
    Extracted =>
        \A k \in DOMAIN files :
            IF UnderToolsOrCliOrCommands(files[k].path)
            THEN StructuralOrOneFallback(files[k].path)
            ELSE \A i \in DOMAIN tools :
                    tools[i].predicted_filename = files[k].path => ~IsFallback(tools[i])

\* one tools-like file with structural candidates, one with its single
\* fallback candidate, and "mytools.md" without any candidate
C14_Witness ==
    /\ Extracted
    /\ \E k \in DOMAIN files :
          /\ UnderToolsOrCliOrCommands(files[k].path)
          /\ \E i \in DOMAIN tools :
                ~IsFallback(tools[i]) /\ tools[i].predicted_filename = files[k].path
    /\ \E k \in DOMAIN files :
          /\ UnderToolsOrCliOrCommands(files[k].path)
          /\ \E i \in DOMAIN tools :
                IsFallback(tools[i]) /\ tools[i].predicted_filename = files[k].path
    /\ \E k \in DOMAIN files :
          /\ files[k].path = P_mytools_md
          /\ OfFile(tools, P_mytools_md) = <<>>

(***************************************************************************)
(* Properties of concurrent /mcp/clone-analyze requests.                   *)
(***************************************************************************)
\* C11: every request indexes and analyses its own tree: while a request
\* walks its destination, the destination holds the tree that request
\* cloned (no other request has removed or replaced it), and the file
\* index it analyses is the index of the repository it asked for.
C11_EachRequestIndexesItsOwnTree ==
    \A r \in DOMAIN reqs :
        /\ reqs[r].pc = "index"
              => disk[reqs[r].dest] = Present(Remote(reqs[r].git))
        /\ reqs[r].pc \in {"analyze", "done"}
              => reqs[r].files = index_repo(Remote(reqs[r].git))

(***************************************************************************)
(* Properties of the run template.                                         *)
(***************************************************************************)
\* infer_run_template has returned run_template for `files`
Templated == pc = "templated"

\* a rule of the first loop applies to the file
UvicornFile(f) == InText(f.content, RT_uvicorn) /\ InText(f.content, RT_app)
FlaskFile(f) == InText(f.content, RT_flask) /\ InText(f.content, RT_app_run)
NpmFile(f) == InText(f.content, RT_npm_start) \/ Contains(f.path, RT_package_json)
FrameworkFile(f) == UvicornFile(f) \/ FlaskFile(f) \/ NpmFile(f)

\* a README file with a run-hint line
ReadmeHintFile(f) ==
    /\ StartsWith(Lower(f.path), RT_readme)
    /\ \E i \in DOMAIN f.content : HintLine(f.content[i])

\* C15: the confidence is the tier of the rule that produced the returned
\* cmd (the rule of the last evidence entry): 0.85 with the uvicorn command,
\* 0.7 with the flask or the npm command, 0.4 with a stripped README hint
\* line, and that only when no file matches a framework rule; cmd is null,
\* with confidence 0.0 and no evidence, exactly when no file matches a
\* framework rule and no README file holds a hint line; the evidence is not
\* empty whenever cmd is not null.
C15_ConfidenceIsTierOfRule ==
    Templated =>
        LET rt == run_template
            n == Len(rt.evidence)
            framework == \E k \in DOMAIN files : FrameworkFile(files[k])
            readme == \E k \in DOMAIN files : ReadmeHintFile(files[k])
        IN  /\ rt.cmd.null <=> (~framework /\ ~readme)
            /\ rt.cmd.null => (rt.confidence = 0 /\ n = 0)
            /\ ~rt.cmd.null =>
                  /\ n >= 1
                  /\ rt.evidence[n] = "uvicorn reference"
                        => (rt.cmd.text = CMD_uvicorn /\ rt.confidence = 85)
                  /\ rt.evidence[n] = "flask app.run found"
                        => (rt.cmd.text = CMD_flask /\ rt.confidence = 70)
                  /\ rt.evidence[n] = "npm start or package.json"
                        => (rt.cmd.text = CMD_npm /\ rt.confidence = 70)
                  /\ rt.evidence[n] = "readme run hint"
                        => /\ rt.confidence = 40
                           /\ ~framework /\ n = 1
                           /\ \E k \in DOMAIN files : \E i \in DOMAIN files[k].content :
                                 /\ ReadmeHintFile(files[k])
                                 /\ rt.cmd.text = Strip(files[k].content[i])
                  /\ rt.evidence[n] \in {"uvicorn reference", "flask app.run found",
                                          "npm start or package.json", "readme run hint"}
            /\ framework => rt.confidence \in {70, 85}
            /\ (~framework /\ readme) => rt.confidence = 40

\* an npm file, then a uvicorn file that replaces the npm command, and a
\* README with a hint line that is not consulted
C15_Witness ==
    /\ Templated
    /\ run_template.evidence = <<"npm start or package.json", "uvicorn reference">>
    /\ run_template.confidence = 85
    /\ \E k \in DOMAIN files : ReadmeHintFile(files[k])

====
